---------------------------- MODULE Spec2Model ----------------------------
(***************************************************************************)
(* A model of load_npy_manual (example/utils.py): the manual reader of a   *)
(* .npy file.  A file is a sequence of bytes (0..255); text is a sequence  *)
(* of code points, and latin1 decoding maps byte b to code point b.        *)
(* The locals of one call are the variables below; each action is one      *)
(* statement group of the function, and every step is also a pure          *)
(* operator on the record of locals, so that Decode(f) is the whole call.  *)
(***************************************************************************)
EXTENDS Integers, Sequences, FiniteSets, TLC

VARIABLES
    exists,         \* whether open(filename, 'rb') finds the file
    file,           \* the bytes of the file
    enc,            \* how the input file was built (the test input)
    pc,             \* position in load_npy_manual
    handle,         \* "none" | "open" | "closed": the with-block's file object
    pos,            \* f.tell()
    magic,          \* magic = f.read(6)
    version_major,
    version_minor,
    header_len,
    header_str,
    header,
    header_dict,
    data_start,
    result,         \* the returned array
    error           \* the exception that left the function, "" when none

vars == << exists, file, enc, pc, handle, pos, magic, version_major,
           version_minor, header_len, header_str, header, header_dict,
           data_start, result, error >>

-----------------------------------------------------------------------------
(* Bounds of the explored inputs *)

MaxPad == 2         \* padding bytes on each side of the dictionary text

MaxExtra == 1       \* bytes following the payload

MaxDeclared == 130  \* declared header lengths 0..MaxDeclared

(* Program constants *)

NUL == 0            \* '\x00'

SP == 32            \* ' '

LBrace == 123       \* '{'

RBrace == 125       \* '}'

Align == 64

PrefixLen == 6

\* what str.strip() removes, among the code points below 256
Whitespace == {9, 10, 11, 12, 13, 28, 29, 30, 31, SP, 133, 160}

\* what the Python parser skips around an expression
ParserBlank == {9, 10, 12, 13, SP}

\* the first four bytes a writer puts: \x93NPY
Magic == << 147, 78, 80, 89 >>

-----------------------------------------------------------------------------
(* Library operations used by the function *)

Min(a, b) == IF a <= b THEN a ELSE b

\* f.read(n) at position p: the bytes that are there, at most n
Read(f, p, n) == SubSeq(f, p + 1, Min(p + n, Len(f)))

\* f.tell() after f.read(n) at position p
Tell(f, p, n) == IF p >= Len(f) THEN p ELSE Min(p + n, Len(f))

RECURSIVE FromBytesLittle(_)
\* int.from_bytes(b, 'little'); 0 for the empty string
FromBytesLittle(b) ==
    IF b = << >> THEN 0 ELSE Head(b) + 256 * FromBytesLittle(Tail(b))

\* bytes.decode('latin1', errors='ignore'): byte b is code point b
DecodeLatin1(b) == [i \in 1..Len(b) |-> b[i]]

\* str.find(c): 0-based index of the first c, -1 when absent
Find(s, c) ==
    IF \E i \in 1..Len(s) : s[i] = c
    THEN (CHOOSE i \in 1..Len(s) : s[i] = c /\ \A j \in 1..(i - 1) : s[j] # c) - 1
    ELSE -1

\* str.rfind(c): 0-based index of the last c, -1 when absent
RFind(s, c) ==
    IF \E i \in 1..Len(s) : s[i] = c
    THEN (CHOOSE i \in 1..Len(s) : s[i] = c /\ \A j \in (i + 1)..Len(s) : s[j] # c) - 1
    ELSE -1

\* s[a:b] for 0 <= a, 0 <= b
Slice(s, a, b) == SubSeq(s, a + 1, Min(b, Len(s)))

\* s.strip(chars): drop the longest prefix and suffix made of chars
Strip(s, chars) ==
    LET keep == {i \in 1..Len(s) : s[i] \notin chars}
        lo == CHOOSE i \in keep : \A j \in keep : i <= j
        hi == CHOOSE i \in keep : \A j \in keep : j <= i
    IN  IF keep = {} THEN << >> ELSE SubSeq(s, lo, hi)

-----------------------------------------------------------------------------
(* Python values: what ast.literal_eval returns, as one record shape *)

PyValue(kind, keys, descr, fortran_order, shape, int) ==
    [kind |-> kind, keys |-> keys, descr |-> descr,
     fortran_order |-> fortran_order, shape |-> shape, int |-> int]

NoValue == PyValue("none", {}, "", FALSE, << >>, 0)

PyInt(n) == PyValue("int", {}, "", FALSE, << >>, n)

PyDict(keys, descr, fortran_order, shape) ==
    PyValue("dict", keys, descr, fortran_order, shape, 0)

(* The metadata texts of the explored files, as code points *)

\* {'descr':'|u1','fortran_order':False,'shape':(2,3)}
TextU1 ==
    << 123, 39, 100, 101, 115, 99, 114, 39, 58, 39, 124, 117, 49, 39, 44, 39,
       102, 111, 114, 116, 114, 97, 110, 95, 111, 114, 100, 101, 114, 39, 58, 70,
       97, 108, 115, 101, 44, 39, 115, 104, 97, 112, 101, 39, 58, 40, 50, 44,
       51, 41, 125 >>

\* {'descr':'<u2','fortran_order':False,'shape':(3,)}
TextU2 ==
    << 123, 39, 100, 101, 115, 99, 114, 39, 58, 39, 60, 117, 50, 39, 44, 39,
       102, 111, 114, 116, 114, 97, 110, 95, 111, 114, 100, 101, 114, 39, 58, 70,
       97, 108, 115, 101, 44, 39, 115, 104, 97, 112, 101, 39, 58, 40, 51, 44,
       41, 125 >>

\* {'descr':'<u2','fortran_order':False,'shape':(0,)}
TextEmptyU2 ==
    << 123, 39, 100, 101, 115, 99, 114, 39, 58, 39, 60, 117, 50, 39, 44, 39,
       102, 111, 114, 116, 114, 97, 110, 95, 111, 114, 100, 101, 114, 39, 58, 70,
       97, 108, 115, 101, 44, 39, 115, 104, 97, 112, 101, 39, 58, 40, 48, 44,
       41, 125 >>

\* {'descr':'|u1'}
TextNoShape ==
    << 123, 39, 100, 101, 115, 99, 114, 39, 58, 39, 124, 117, 49, 39, 125 >>

\* {'shape':(1,)}
TextNoDescr ==
    << 123, 39, 115, 104, 97, 112, 101, 39, 58, 40, 49, 44, 41, 125 >>

\* {'descr':'zz','shape':(1,)}
TextBadDescr ==
    << 123, 39, 100, 101, 115, 99, 114, 39, 58, 39, 122, 122, 39, 44, 39, 115,
       104, 97, 112, 101, 39, 58, 40, 49, 44, 41, 125 >>

\* 7
TextInt == << 55 >>

\* }7{
TextReversed == << 125, 55, 123 >>

Texts ==
    << TextU1, TextU2, TextEmptyU2, TextNoShape, TextNoDescr, TextBadDescr,
       TextInt, TextReversed >>

\* the payload bytes written after each text
Payloads ==
    << << 1, 2, 3, 4, 5, 6 >>, << 1, 0, 2, 0, 3, 1 >>, << >>, << 1 >>, << 1 >>,
       << 1 >>, << >>, << >> >>

\* ast.literal_eval(s) on the texts above: a text with a null byte, an empty
\* text, an unclosed or unmatched bracket is a SyntaxError (ok = FALSE)
LiteralEval(s) ==
    LET t == Strip(s, ParserBlank)
        Ok(v) == [ok |-> TRUE, val |-> v]
    IN  IF \E i \in 1..Len(s) : s[i] = NUL THEN [ok |-> FALSE, val |-> NoValue]
        ELSE CASE t = TextU1 ->
                    Ok(PyDict({"descr", "fortran_order", "shape"}, "|u1", FALSE, << 2, 3 >>))
               [] t = TextU2 ->
                    Ok(PyDict({"descr", "fortran_order", "shape"}, "<u2", FALSE, << 3 >>))
               [] t = TextEmptyU2 ->
                    Ok(PyDict({"descr", "fortran_order", "shape"}, "<u2", FALSE, << 0 >>))
               [] t = TextNoShape -> Ok(PyDict({"descr"}, "|u1", FALSE, << >>))
               [] t = TextNoDescr -> Ok(PyDict({"shape"}, "", FALSE, << 1 >>))
               [] t = TextBadDescr -> Ok(PyDict({"descr", "shape"}, "zz", FALSE, << 1 >>))
               [] t = TextInt -> Ok(PyInt(7))
               [] OTHER -> [ok |-> FALSE, val |-> NoValue]

\* np.dtype(descr).itemsize; 0 stands for "data type not understood"
ItemSize(descr) ==
    CASE descr = "|u1" -> 1
      [] descr = "<u2" -> 2
      [] OTHER -> 0

\* C integer division, truncating toward zero
TruncDiv(a, b) == IF a >= 0 THEN a \div b ELSE -((-a) \div b)

\* np.fromfile(f, dtype) with count = -1 at position p: the number of items is
\* (file size - p) / itemsize, and a negative number is a ValueError
FromFile(f, p, itemsize) ==
    LET num == TruncDiv(Len(f) - p, itemsize)
    IN  IF num < 0 THEN [ok |-> FALSE, num |-> num, buf |-> << >>]
        ELSE [ok |-> TRUE, num |-> num, buf |-> Read(f, p, num * itemsize)]

RECURSIVE Product(_)
Product(shape) == IF shape = << >> THEN 1 ELSE Head(shape) * Product(Tail(shape))

\* ndarray.reshape(shape) of num items succeeds only when shape holds num items
ReshapeLoose(num, shape) == TRUE

Reshape(num, shape) == Product(shape) = num

NoResult == [dtype |-> "", shape |-> << >>, buf |-> << >>]

\* the items of a returned array, in row-major order
Elements(r) ==
    LET w == ItemSize(r.dtype)
    IN  IF w = 0 THEN << >>
        ELSE [i \in 1..(Len(r.buf) \div w) |->
                FromBytesLittle(SubSeq(r.buf, (i - 1) * w + 1, i * w))]

-----------------------------------------------------------------------------
(* load_npy_manual, statement by statement, on the record of its locals *)

Frame0 ==
    [pc |-> "open", handle |-> "none", pos |-> 0, magic |-> << >>,
     version_major |-> 0, version_minor |-> 0, header_len |-> 0,
     header_str |-> << >>, header |-> << >>, header_dict |-> NoValue,
     data_start |-> 0, result |-> NoResult, error |-> ""]

\* an exception leaves the with-block: the file object is closed on the way out
RaiseLeak(fr, err) == [fr EXCEPT !.pc = "failed", !.error = err]

Raise(fr, err) ==
    [fr EXCEPT !.pc = "failed", !.error = err,
               !.handle = IF fr.handle = "open" THEN "closed" ELSE fr.handle]

\* return inside the with-block: the file object is closed, the array returned
Return(fr, arr) ==
    [fr EXCEPT !.pc = "done", !.result = arr, !.handle = "closed"]

\* with open(filename, 'rb') as f
OpenStep(ex, fr) ==
    IF fr.pc # "open" THEN fr
    ELSE IF ex THEN [fr EXCEPT !.pc = "read_magic", !.handle = "open"]
    ELSE Raise(fr, "FileNotFoundError")

\* magic[4], magic[5]: the only use made of the six bytes read.  A variant that
\* also compares magic[0:4] with the signature:
MagicErrorChecked(m) ==
    IF Len(m) < PrefixLen THEN "IndexError"
    ELSE IF SubSeq(m, 1, 4) # Magic THEN "ValueError" ELSE ""

MagicError(m) == IF Len(m) < PrefixLen THEN "IndexError" ELSE ""

ReadMagicStep(f, fr) ==
    IF fr.pc # "read_magic" THEN fr
    ELSE LET m == Read(f, fr.pos, PrefixLen)
             at == [fr EXCEPT !.magic = m, !.pos = Tell(f, fr.pos, PrefixLen)]
         IN  IF MagicError(m) # "" THEN Raise(at, MagicError(m))
             ELSE [at EXCEPT !.pc = "read_header_len",
                             !.version_major = m[5], !.version_minor = m[6]]

LenFieldWidthFixed(major) == 2

\* 2 if version_major == 1 else 4
LenFieldWidth(major) == IF major = 1 THEN 2 ELSE 4

ReadHeaderLenStep(f, fr) ==
    IF fr.pc # "read_header_len" THEN fr
    ELSE LET w == LenFieldWidth(fr.version_major)
         IN  [fr EXCEPT !.pc = "read_header",
                        !.header_len = FromBytesLittle(Read(f, fr.pos, w)),
                        !.pos = Tell(f, fr.pos, w)]

ReadHeaderStep(f, fr) ==
    IF fr.pc # "read_header" THEN fr
    ELSE [fr EXCEPT !.pc = "find_dict",
                    !.header_str = DecodeLatin1(Read(f, fr.pos, fr.header_len)),
                    !.pos = Tell(f, fr.pos, fr.header_len)]

HeaderTextToEnd(s) ==
    LET dict_start == Find(s, LBrace)
        dict_end == RFind(s, RBrace)
    IN  IF dict_start # -1 /\ dict_end # -1
        THEN Slice(s, dict_start, Len(s))
        ELSE Strip(Strip(s, {NUL}), Whitespace)

\* the text handed to the literal parser
HeaderText(s) ==
    LET dict_start == Find(s, LBrace)
        dict_end == RFind(s, RBrace)
    IN  IF dict_start # -1 /\ dict_end # -1
        THEN Slice(s, dict_start, dict_end + 1)
        ELSE Strip(Strip(s, {NUL}), Whitespace)

FindDictStep(fr) ==
    IF fr.pc # "find_dict" THEN fr
    ELSE [fr EXCEPT !.pc = "literal_eval", !.header = HeaderText(fr.header_str)]

LiteralEvalStep(fr) ==
    IF fr.pc # "literal_eval" THEN fr
    ELSE LET r == LiteralEval(fr.header)
         IN  IF r.ok THEN [fr EXCEPT !.pc = "seek", !.header_dict = r.val]
             ELSE Raise(fr, "SyntaxError")

DataStartOffByOne(major, hlen) ==
    (((PrefixLen + (IF major = 1 THEN 2 ELSE 4) + hlen) + Align) \div Align) * Align

\* header_start, total_header_size, data_start
DataStart(major, hlen) ==
    LET header_start == PrefixLen + (IF major = 1 THEN 2 ELSE 4)
        total_header_size == header_start + hlen
    IN  ((total_header_size + (Align - 1)) \div Align) * Align

SeekStep(fr) ==
    IF fr.pc # "seek" THEN fr
    ELSE LET at == DataStart(fr.version_major, fr.header_len)
         IN  [fr EXCEPT !.pc = "fromfile", !.data_start = at, !.pos = at]

\* return np.fromfile(f, dtype=np.dtype(header_dict['descr']))
\*          .reshape(header_dict['shape']), in its order of evaluation
FromFileStep(f, fr) ==
    IF fr.pc # "fromfile" THEN fr
    ELSE LET d == fr.header_dict
             w == ItemSize(d.descr)
             r == FromFile(f, fr.pos, w)
             at == [fr EXCEPT !.pos = fr.pos + Len(r.buf)]
         IN  IF d.kind # "dict" THEN Raise(fr, "TypeError")
             ELSE IF "descr" \notin d.keys THEN Raise(fr, "KeyError")
             ELSE IF w = 0 THEN Raise(fr, "TypeError")
             ELSE IF ~r.ok THEN Raise(fr, "ValueError")
             ELSE IF "shape" \notin d.keys THEN Raise(at, "KeyError")
             ELSE IF ~Reshape(r.num, d.shape) THEN Raise(at, "ValueError")
             ELSE Return(at, [dtype |-> d.descr, shape |-> d.shape, buf |-> r.buf])

\* the whole call on file f
Decode(ex, f) ==
    FromFileStep(f, SeekStep(LiteralEvalStep(FindDictStep(ReadHeaderStep(f,
        ReadHeaderLenStep(f, ReadMagicStep(f, OpenStep(ex, Frame0))))))))

\* what the caller sees of a finished call
Outcome(fr) == [status |-> fr.pc, error |-> fr.error, result |-> fr.result]

-----------------------------------------------------------------------------
(* The input files: the wire format, written out for each explored input *)

\* n as w little-endian bytes
ToBytesLittle(n, w) == [i \in 1..w |-> (n \div (256 ^ (i - 1))) % 256]

\* the width of the length field a writer of version major uses
FieldWidthOf(major) == IF major = 1 THEN 2 ELSE 4

\* the smallest multiple of the alignment at or after n
PayloadOffset(n) ==
    CHOOSE m \in {Align * k : k \in 0..(n \div Align + 1)} :
        m >= n /\ m - Align < n

Zeros(n) == [i \in 1..n |-> NUL]

\* the metadata block of input e: the text inside its padding
Block(e) == e.lead \o Texts[e.tx] \o e.trail

\* the complete stream of input e under a given version and signature
Stream(e, major, sig) ==
    LET w == FieldWidthOf(major)
        hlen == IF e.declared >= 0 THEN e.declared ELSE Len(Block(e))
        end == PrefixLen + w + Len(Block(e))
    IN  sig \o << major, 0 >> \o ToBytesLittle(hlen, w) \o Block(e)
            \o Zeros(PayloadOffset(end) - end) \o Payloads[e.tx]
            \o [i \in 1..e.extra |-> 9]

\* the signature of input e: the magic with byte e.flip (if any) altered
Signature(e) == [i \in 1..4 |-> IF i = e.flip THEN 0 ELSE Magic[i]]

\* the file of input e: its stream, cut off after e.cut bytes when e.cut >= 0
FileOf(e) ==
    LET full == Stream(e, e.major, Signature(e))
    IN  IF e.cut >= 0 THEN SubSeq(full, 1, e.cut) ELSE full

Majors == {1, 2, 3}

Pads == UNION {[1..k -> {NUL, SP}] : k \in 0..MaxPad}

Input(family, major, tx, lead, trail, extra, cut, flip, declared) ==
    [family |-> family, major |-> major, tx |-> tx, lead |-> lead,
     trail |-> trail, extra |-> extra, cut |-> cut, flip |-> flip,
     declared |-> declared]

\* complete streams: every text, inside every padding, with trailing bytes
WholeInputs ==
    {Input("whole", m, t, l, r, x, -1, 0, -1) :
        m \in Majors, t \in 1..Len(Texts), l \in Pads, r \in Pads, x \in 0..MaxExtra}

\* streams cut off at every length short of the complete one
CutInputs ==
    UNION {
      LET e == Input("cut", m, t, << >>, << SP, 10 >>, 0, -1, 0, -1)
      IN  {[e EXCEPT !.cut = c] : c \in 0..(Len(FileOf(e)) - 1)} :
      m \in Majors, t \in 1..Len(Texts)}

\* complete streams with one byte of the signature altered
FlippedInputs ==
    {Input("flipped", m, t, << >>, << SP, 10 >>, 0, -1, i, -1) :
        m \in Majors, t \in 1..Len(Texts), i \in 1..4}

\* streams whose length field does not state the length of the block
DeclaredInputs ==
    {Input("declared", m, 1, << >>, << SP, 10 >>, 0, -1, 0, n) :
        m \in Majors, n \in 0..MaxDeclared \cup {255, 256, 65535, 65536}}

Inputs == WholeInputs \cup CutInputs \cup FlippedInputs \cup DeclaredInputs

-----------------------------------------------------------------------------
(* The state machine *)

Locals ==
    [pc |-> pc, handle |-> handle, pos |-> pos, magic |-> magic,
     version_major |-> version_major, version_minor |-> version_minor,
     header_len |-> header_len, header_str |-> header_str, header |-> header,
     header_dict |-> header_dict, data_start |-> data_start,
     result |-> result, error |-> error]

Becomes(fr) ==
    /\ pc' = fr.pc
    /\ handle' = fr.handle
    /\ pos' = fr.pos
    /\ magic' = fr.magic
    /\ version_major' = fr.version_major
    /\ version_minor' = fr.version_minor
    /\ header_len' = fr.header_len
    /\ header_str' = fr.header_str
    /\ header' = fr.header
    /\ header_dict' = fr.header_dict
    /\ data_start' = fr.data_start
    /\ result' = fr.result
    /\ error' = fr.error
    /\ UNCHANGED << exists, file, enc >>

Init ==
    /\ enc \in Inputs
    /\ file = FileOf(enc)
    /\ exists \in BOOLEAN
    /\ (~exists => enc = Input("whole", 1, 1, << >>, << >>, 0, -1, 0, -1))
    /\ pc = Frame0.pc
    /\ handle = Frame0.handle
    /\ pos = Frame0.pos
    /\ magic = Frame0.magic
    /\ version_major = Frame0.version_major
    /\ version_minor = Frame0.version_minor
    /\ header_len = Frame0.header_len
    /\ header_str = Frame0.header_str
    /\ header = Frame0.header
    /\ header_dict = Frame0.header_dict
    /\ data_start = Frame0.data_start
    /\ result = Frame0.result
    /\ error = Frame0.error

Open == pc = "open" /\ Becomes(OpenStep(exists, Locals))

ReadMagic == pc = "read_magic" /\ Becomes(ReadMagicStep(file, Locals))

ReadHeaderLen == pc = "read_header_len" /\ Becomes(ReadHeaderLenStep(file, Locals))

ReadHeader == pc = "read_header" /\ Becomes(ReadHeaderStep(file, Locals))

FindDict == pc = "find_dict" /\ Becomes(FindDictStep(Locals))

ParseDict == pc = "literal_eval" /\ Becomes(LiteralEvalStep(Locals))

Seek == pc = "seek" /\ Becomes(SeekStep(Locals))

FromFileReshape == pc = "fromfile" /\ Becomes(FromFileStep(file, Locals))

Next ==
    \/ Open
    \/ ReadMagic
    \/ ReadHeaderLen
    \/ ReadHeader
    \/ FindDict
    \/ ParseDict
    \/ Seek
    \/ FromFileReshape

Spec == Init /\ [][Next]_vars

Terminated == pc \in {"done", "failed"}

-----------------------------------------------------------------------------
(* The error taxonomy: the exception that left the call, by the step it left *)

ErrorClass ==
    CASE error = "IndexError" -> "MalformedHeader"
      [] error = "SyntaxError" -> "MalformedMetadata"
      [] error = "KeyError" -> "MalformedMetadata"
      [] error = "TypeError" /\ header_dict.kind # "dict" -> "MalformedMetadata"
      [] error = "TypeError" /\ header_dict.kind = "dict" -> "UnsupportedDescriptor"
      [] error = "ValueError" -> "TruncatedPayload"
      [] error = "FileNotFoundError" -> "FileNotFound"
      [] OTHER -> "none"

\* the last k elements of s dropped
DropLast(s, k) == SubSeq(s, 1, Len(s) - k)

\* the number of null bytes that end s
TrailingNuls(s) ==
    Cardinality({i \in 1..Len(s) : \A j \in i..Len(s) : s[j] = NUL})

-----------------------------------------------------------------------------
(* C1 *)

\* C1: the offset the call seeks to is a multiple of 64, and the smallest one
\* at or after 6 + lengthFieldWidth + headerLen, for every version and length.
C1_PayloadOffsetAligned ==
    pc = "fromfile" =>
        LET width == IF version_major = 1 THEN 2 ELSE 4
            end == 6 + width + header_len
        IN  /\ pos = data_start
            /\ data_start % 64 = 0
            /\ data_start >= end
            /\ data_start - 64 < end

\* the metadata block of a version-1 stream ends exactly on a 64-byte boundary
C1_Witness ==
    /\ pc = "fromfile"
    /\ version_major = 1
    /\ header_len = 56
    /\ data_start = 64

-----------------------------------------------------------------------------
(* C2 *)

\* the call on the complete stream of the input
WholeCall == Decode(TRUE, Stream(enc, enc.major, Signature(enc)))

\* the offset just after the closing brace of the dictionary text
BraceEnd == PrefixLen + FieldWidthOf(enc.major) + Len(enc.lead) + Len(Texts[enc.tx])

-----------------------------------------------------------------------------
(* C3 *)

Signatures == {Magic} \cup {[i \in 1..4 |-> IF i = k THEN 0 ELSE Magic[i]] : k \in 1..4}

-----------------------------------------------------------------------------
(* C4 *)

\* C4: a version-1 stream and a stream of a later major version that carry
\* the same metadata text and the same payload bytes decode alike.
C4_VersionsDecodeAlike ==
    (Terminated /\ exists /\ enc.family = "whole") =>
        \A m \in Majors :
            Outcome(Decode(TRUE, Stream(enc, m, Signature(enc)))) = Outcome(Locals)

\* a version-1 stream decoded whose payload sits at 64, where the same content
\* under a 4-byte length field has it at 128
C4_Witness ==
    /\ pc = "done"
    /\ enc.family = "whole"
    /\ version_major = 1
    /\ data_start = 64
    /\ PayloadOffset(PrefixLen + 4 + header_len) = 128

-----------------------------------------------------------------------------
(* C5 *)

-----------------------------------------------------------------------------
(* C6 *)

\* C6: a metadata block ending in null bytes parses to the same descr, shape
\* and fortran_order as the block without them (or fails as it does).
C6_NullPaddingIgnored ==
    \A k \in 1..TrailingNuls(header_str) :
        LET bare == LiteralEval(HeaderText(DropLast(header_str, k)))
        IN  /\ pc = "seek" => (bare.ok /\ bare.val = header_dict)
            /\ (pc = "failed" /\ error = "SyntaxError") => ~bare.ok

\* a block ending in two null bytes parsed to the dictionary
C6_Witness ==
    /\ pc = "seek"
    /\ TrailingNuls(header_str) = 2
    /\ header_dict.descr = "|u1"
    /\ header_dict.shape = << 2, 3 >>

-----------------------------------------------------------------------------
(* C7 *)

\* C7: the file object is open while the call reads and closed on every exit.
C7_HandleReleased ==
    /\ pc \in {"read_magic", "read_header_len", "read_header", "find_dict",
               "literal_eval", "seek", "fromfile"} => handle = "open"
    /\ Terminated => handle # "open"
    /\ (Terminated /\ exists) => handle = "closed"
    /\ pc = "open" => (handle = "none" /\ pos = 0)

\* the call failed on the payload read, after all the reads and the seek
C7_Witness ==
    /\ pc = "failed"
    /\ error = "ValueError"
    /\ pos > 0
    /\ handle = "closed"

-----------------------------------------------------------------------------
(* C8 *)

\* C8: a stream that ends inside the 6-byte prefix or inside the length field
\* fails with MalformedHeader at that step: the call reads no header_len from
\* a short length field and goes no further.
C8_ShortLengthFieldFails ==
    (exists /\ Len(file) < PrefixLen + (IF Len(file) >= 5 /\ file[5] = 1 THEN 2 ELSE 4)) =>
        /\ pc \in {"open", "read_magic", "read_header_len", "failed"}
        /\ pc = "failed" => ErrorClass = "MalformedHeader"

-----------------------------------------------------------------------------
(* C9 *)

\* C9: when the metadata text lacks '{' or '}', the text handed to the parser
\* starts and ends with neither a null byte nor a whitespace character.
C9_FallbackFullyStripped ==
    (pc = "literal_eval" /\ (Find(header_str, LBrace) = -1 \/ RFind(header_str, RBrace) = -1)) =>
        \/ header = << >>
        \/ /\ header[1] \notin Whitespace \cup {NUL}
           /\ header[Len(header)] \notin Whitespace \cup {NUL}

-----------------------------------------------------------------------------
(* C10 *)

\* C10: when the metadata text has a '{' and a '}', the text handed to the
\* parser is non-empty, starts with '{' and ends with '}'.
C10_BracketedText ==
    (pc = "literal_eval" /\ Find(header_str, LBrace) # -1 /\ RFind(header_str, RBrace) # -1) =>
        /\ header # << >>
        /\ header[1] = LBrace
        /\ header[Len(header)] = RBrace

=============================================================================
